---- MODULE Spec2Model ----
(***************************************************************************)
(* Software rasterizer of the solar-system renderer: triangle()            *)
(* (src/src/triangle.rs), render(), the bloom post-process and the frame   *)
(* loop of main() (src/src/main.rs), and the SolarSystem state the loop    *)
(* drives (src/src/solar_system.rs).                                       *)
(*                                                                         *)
(* Numbers.  Screen coordinates are kept in quarter pixels (Scale = 4), so *)
(* a pixel centre x + 0.5 is the integer 4x + 2 and an edge function is    *)
(* 16 times its value in pixels.  Float arithmetic is modelled exactly on  *)
(* these rationals; float-to-integer casts are modelled as Rust defines    *)
(* them (truncation, saturation, NaN -> 0).                                *)
(***************************************************************************)
EXTENDS Integers, Sequences, FiniteSets, TLC

VARIABLES
    \* ---- post-process (gaussian_blur / apply_bloom) ----
    width, height,        \* framebuffer.width, framebuffer.height
    buffer,               \* framebuffer.buffer, packed 0xRRGGBB, index x + y*width
    emissive_buffer,      \* framebuffer.emissive_buffer, same indexing
    emissive_in,          \* the emissive buffer as it was handed to gaussian_blur
    buffer_in,            \* the colour buffer as it was handed to apply_bloom
    kernel_size, sigma,   \* the arguments of gaussian_blur (sigma in tenths)
    ppc,                  \* position of the post-process: "ready", "blurred", "bloomed"
    \* ---- render() and triangle() ----
    vertex_array,         \* transformed vertices handed to the rasterizer, [x, y, z]
    vertex_reads,         \* the indices of transformed_vertices render read, per triangle
    tri_results,          \* what triangle() returned for each triangle, in order
    fragments,            \* render's fragments vector
    point_calls,          \* the framebuffer.point calls render made, in order
    fb_pixels,            \* framebuffer pixels written since clear: <<x, y>> -> record
    rpc,                  \* position of render: "ready", "rendered"
    \* ---- the frame loop of main() ----
    pc,                   \* position in the loop body
    time,                 \* main's frame counter
    last_bloom_update,    \* frame of the last throttled bloom
    uniforms,             \* the Uniforms value: matrices, current_shader, noise
    camera,               \* camera.eye and camera.center
    solar_system,         \* warp_target, warp_animation (eighths), bird_eye_view, spaceship
    body_i,               \* index of the body the render loop is at
    frame_events          \* what the current iteration has done so far, in order

postVars == <<width, height, buffer, emissive_buffer, emissive_in, buffer_in, kernel_size, sigma, ppc>>
rasterVars == <<vertex_array, vertex_reads, tri_results, fragments, point_calls, fb_pixels, rpc>>
frameVars == <<pc, time, last_bloom_update, uniforms, camera, solar_system, body_i, frame_events>>
vars == <<postVars, rasterVars, frameVars>>

(***************************************************************************)
(* Bounds of the model                                                     *)
(***************************************************************************)
MaxWidth == 6
MaxHeight == 5
MaxKernel == 4
MaxBloom == 12
MaxOff == 2
MaxFrames == 6
MaxVerts == 7
MaxPlanetIndex == 6
MaxSmallSteps == 3

\* the framebuffer main creates, in pixels
FramebufferWidth == 680
FramebufferHeight == 800

Min(a, b) == IF a <= b THEN a ELSE b
Max(a, b) == IF a >= b THEN a ELSE b
Abs(a) == IF a < 0 THEN -a ELSE a

RECURSIVE SeqSum(_)
SeqSum(s) == IF s = <<>> THEN 0 ELSE Head(s) + SeqSum(Tail(s))

(***************************************************************************)
(* create_gaussian_kernel                                                  *)
(***************************************************************************)
\* The sigmas the model draws, in tenths: 2.0 and 2.5 are the two values main
\* passes; 150.0 is a wide blur.
Sigmas == {20, 25, 1500}

\* (coefficient * exp_value * 255.0) as u32, evaluated in f32, for the offset
\* x with |x - mean| = twoD / 2.  The exponent handed to exp() is
\* -exp_numerator = +(x - mean)^2 / (2 sigma^2): the weight GROWS with the
\* distance from the mean.  coefficient * 255 is 50.87 for sigma 2.0, 40.69
\* for 2.5 and 0.678 for 150.0, which the cast truncates to 0.
GaussianWeight(sg, twoD) ==
    CASE sg = 20   -> <<50, 52, 57, 67, 83, 111, 156, 235, 375, 639, 1157, 2231>>[twoD + 1]
      [] sg = 25   -> <<40, 41, 44, 48, 56, 67, 83, 108, 146, 205, 300, 457>>[twoD + 1]
      [] sg = 1500 -> 0

\* kernel[x] for x in 0..size-1 is element x + 1 of the sequence;
\* mean = (size - 1) / 2, so 2 (x - mean) = 2x - (size - 1).
create_gaussian_kernel(size, sg) ==
    [i \in 1..size |-> GaussianWeight(sg, Abs(2 * (i - 1) - (size - 1)))]

(***************************************************************************)
(* gaussian_blur                                                           *)
(***************************************************************************)
\* (filtered_pixel / kernel_sum).round() as u32.  A zero kernel_sum means every
\* weight is zero, so the quotient is 0.0 / 0.0 = NaN, which the cast turns
\* into 0.  round() rounds halves away from zero.
RoundDiv(filtered_pixel, kernel_sum) ==
    IF kernel_sum = 0 THEN 0
    ELSE (2 * filtered_pixel + kernel_sum) \div (2 * kernel_sum)

\* sample offset of kernel entry k (0-based): k - len / 2
SampleOffset(k, len) == k - (len \div 2)

\* first pass: every row convolved horizontally into temp_row and copied back
HorizontalPass(buf, w, h, kernel) ==
    LET len == Len(kernel)
        kernel_sum == SeqSum(kernel)
        term(x, y, k) ==
            LET sample_x == x + SampleOffset(k, len)
            IN  IF sample_x >= 0 /\ sample_x < w
                THEN buf[sample_x + y * w] * kernel[k + 1]
                ELSE 0
        filtered(x, y) == SeqSum([i \in 1..len |-> term(x, y, i - 1)])
    IN  [idx \in 0..(w * h - 1) |-> RoundDiv(filtered(idx % w, idx \div w), kernel_sum)]

\* second pass: every column convolved vertically into temp_col and copied back
VerticalPass(buf, w, h, kernel) ==
    LET len == Len(kernel)
        kernel_sum == SeqSum(kernel)
        term(x, y, k) ==
            LET sample_y == y + SampleOffset(k, len)
            IN  IF sample_y >= 0 /\ sample_y < h
                THEN buf[x + sample_y * w] * kernel[k + 1]
                ELSE 0
        filtered(x, y) == SeqSum([i \in 1..len |-> term(x, y, i - 1)])
    IN  [idx \in 0..(w * h - 1) |-> RoundDiv(filtered(idx % w, idx \div w), kernel_sum)]

gaussian_blur(buf, w, h, size, sg) ==
    LET gaussian_kernel == create_gaussian_kernel(size, sg)
    IN  VerticalPass(HorizontalPass(buf, w, h, gaussian_kernel), w, h, gaussian_kernel)

(***************************************************************************)
(* blend_bloom / apply_bloom                                               *)
(***************************************************************************)
ChannelR(color) == (color \div 65536) % 256
ChannelG(color) == (color \div 256) % 256
ChannelB(color) == color % 256

\* ((channel + bloom).min(255.0 * max_bloom_effect)).min(255.0) as u32 with
\* bloom = bloom_intensity * 0.8 and max_bloom_effect = 1.2, in tenths.
BlendChannelUncapped(channel, bloom_intensity) ==
    (10 * channel + 8 * bloom_intensity) \div 10

BlendChannel(channel, bloom_intensity) ==
    Min(Min(10 * channel + 8 * bloom_intensity, 255 * 12), 2550) \div 10

blend_bloom(base_color, bloom_intensity) ==
    BlendChannel(ChannelR(base_color), bloom_intensity) * 65536
    + BlendChannel(ChannelG(base_color), bloom_intensity) * 256
    + BlendChannel(ChannelB(base_color), bloom_intensity)

apply_bloom(original, bloom) ==
    [i \in DOMAIN original |->
        IF bloom[i] > 0 THEN blend_bloom(original[i], bloom[i]) ELSE original[i]]

(***************************************************************************)
(* Each specification exercises one part of the program; the state of the   *)
(* other parts is parked in these values.                                  *)
(***************************************************************************)
RasterIdle ==
    /\ vertex_array = <<>>
    /\ vertex_reads = <<>>
    /\ tri_results = <<>>
    /\ fragments = <<>>
    /\ point_calls = <<>>
    /\ fb_pixels = <<>>
    /\ rpc = "idle"

PostIdle ==
    /\ width = FramebufferWidth
    /\ height = FramebufferHeight
    /\ buffer = <<>>
    /\ emissive_buffer = <<>>
    /\ emissive_in = <<>>
    /\ buffer_in = <<>>
    /\ kernel_size = 0
    /\ sigma = 20
    /\ ppc = "idle"

FrameIdle ==
    /\ pc = "idle"
    /\ time = 0
    /\ last_bloom_update = 0
    /\ uniforms = <<>>
    /\ camera = <<>>
    /\ solar_system = <<>>
    /\ body_i = 0
    /\ frame_events = <<>>

(***************************************************************************)
(* triangle()                                                              *)
(* Coordinates are in quarter pixels; an edge function value is 16 times   *)
(* its value in pixels.                                                    *)
(***************************************************************************)
\* the frustum-culling limits of triangle(), in pixels
CullWidth == 800
CullHeight == 600

\* v.floor() as i32 and v.ceil() as i32 of a coordinate given in quarter pixels
Floor(q) == q \div 4
Ceil(q) == -((-q) \div 4)

edge_function(a, b, c) ==
    (c.x - a.x) * (b.y - a.y) - (c.y - a.y) * (b.x - a.x)

calculate_bounding_box(v1, v2, v3) ==
    [min_x |-> Floor(Min(Min(v1.x, v2.x), v3.x)),
     min_y |-> Floor(Min(Min(v1.y, v2.y), v3.y)),
     max_x |-> Ceil(Max(Max(v1.x, v2.x), v3.x)),
     max_y |-> Ceil(Max(Max(v1.y, v2.y), v3.y))]

\* Early frustum culling
FrustumCulled(a, b, c) ==
    \/ (a.x < 0 /\ b.x < 0 /\ c.x < 0)
    \/ (a.x > 4 * CullWidth /\ b.x > 4 * CullWidth /\ c.x > 4 * CullWidth)
    \/ (a.y < 0 /\ b.y < 0 /\ c.y < 0)
    \/ (a.y > 4 * CullHeight /\ b.y > 4 * CullHeight /\ c.y > 4 * CullHeight)

\* triangle_area.abs() < 0.1, the area given in sixteenths
TooSmallZeroOnly(triangle_area) == triangle_area = 0

TooSmall(triangle_area) == 10 * Abs(triangle_area) < 16

\* the three edge functions of the sample point, the numerators of w1, w2, w3
BarycentricFlipped(a, b, c, point) ==
    <<edge_function(b, c, point), edge_function(a, c, point), edge_function(a, b, point)>>

Barycentric(a, b, c, point) ==
    <<edge_function(b, c, point), edge_function(c, a, point), edge_function(a, b, point)>>

\* w >= 0.0 for w = e / triangle_area (a zero numerator gives 0.0 or -0.0,
\* and both compare >= 0.0)
WeightNonNegative(e, triangle_area) == e * triangle_area >= 0

\* the pixel visited idx-th (0-based) by the scan of the bounding box
ScanPixel(box, idx) ==
    LET cols == box.max_x - box.min_x + 1
    IN  [x |-> box.min_x + (idx % cols), y |-> box.min_y + (idx \div cols)]

\* the sample point of a pixel: (x + 0.5, y + 0.5)
SamplePoint(px) == [x |-> 4 * px.x + 2, y |-> 4 * px.y + 2, z |-> 0]

\* the result of triangle(v1, v2, v3): the fragments in scan order and the
\* number of divisions by triangle_area that were performed
triangle(v1, v2, v3) ==
    LET a == v1
        b == v2
        c == v3
        box == calculate_bounding_box(a, b, c)
        triangle_area == edge_function(a, b, c)
        cols == box.max_x - box.min_x + 1
        rows == box.max_y - box.min_y + 1
        e(px) == Barycentric(a, b, c, SamplePoint(px))
        Covered(px) ==
            /\ WeightNonNegative(e(px)[1], triangle_area)
            /\ WeightNonNegative(e(px)[2], triangle_area)
            /\ WeightNonNegative(e(px)[3], triangle_area)
        Frag(px) ==
            [x |-> px.x, y |-> px.y,
             w |-> e(px), area |-> triangle_area,
             depth |-> [num |-> a.z * e(px)[1] + b.z * e(px)[2] + c.z * e(px)[3],
                        den |-> triangle_area]]
        scan == [i \in 1..(cols * rows) |-> ScanPixel(box, i - 1)]
        inside == SelectSeq(scan, Covered)
    IN  IF FrustumCulled(a, b, c) \/ TooSmall(triangle_area)
        THEN [fragments |-> <<>>, divisions |-> 0]
        ELSE [fragments |-> [i \in 1..Len(inside) |-> Frag(inside[i])],
              divisions |-> 3 * cols * rows]

(***************************************************************************)
(* render()                                                                *)
(***************************************************************************)
\* the triangles render assembles: vertices i, i+1, i+2 for i = 0, 3, 6, ...
\* with i + 2 < len
\* the values of i for which a triangle is pushed (0-based indices)
TriangleStartsSliding(len) ==
    SelectSeq([j \in 1..len |-> j - 1], LAMBDA i : i + 2 < len)

TriangleStarts(len) ==
    SelectSeq([j \in 1..len |-> j - 1], LAMBDA i : i % 3 = 0 /\ i + 2 < len)

\* the indices read for each triangle: i, i + 1, i + 2
VertexReads(len) ==
    LET starts == TriangleStarts(len)
    IN  [t \in 1..Len(starts) |-> <<starts[t], starts[t] + 1, starts[t] + 2>>]

Triangles(va) ==
    LET reads == VertexReads(Len(va))
    IN  [t \in 1..Len(reads) |->
            <<va[reads[t][1] + 1], va[reads[t][2] + 1], va[reads[t][3] + 1]>>]

RECURSIVE Flatten(_)
Flatten(ss) == IF ss = <<>> THEN <<>> ELSE Head(ss) \o Flatten(Tail(ss))

\* fragment.position.x as usize: the cast of a float saturates, so a negative
\* coordinate becomes 0
AsUsize(v) == IF v < 0 THEN 0 ELSE v

\* d1 < d2 for depths num / den
DepthLess(d1, d2) ==
    LET s1 == IF d1.den < 0 THEN -1 ELSE 1
        s2 == IF d2.den < 0 THEN -1 ELSE 1
    IN  (s1 * d1.num) * (s2 * d2.den) < (s2 * d2.num) * (s1 * d1.den)

\* Framebuffer::point: the write is accepted when the depth is strictly nearer
\* than the stored one; a pixel not written since clear holds the far sentinel
point(pixels, x, y, depth, frag) ==
    IF <<x, y>> \notin DOMAIN pixels \/ DepthLess(depth, pixels[<<x, y>>].depth)
    THEN [p \in (DOMAIN pixels) \cup {<<x, y>>} |->
             IF p = <<x, y>> THEN [depth |-> depth, frag |-> frag] ELSE pixels[p]]
    ELSE pixels

\* the loop over the fragments: the calls of framebuffer.point, in order
PointCalls(frags, w, h) ==
    LET idx == SelectSeq([i \in 1..Len(frags) |-> i],
                         LAMBDA i : AsUsize(frags[i].x) < w /\ AsUsize(frags[i].y) < h)
    IN  [k \in 1..Len(idx) |->
            [x |-> AsUsize(frags[idx[k]].x), y |-> AsUsize(frags[idx[k]].y),
             depth |-> frags[idx[k]].depth, frag |-> idx[k]]]

RECURSIVE ApplyPoints(_, _)
ApplyPoints(pixels, calls) ==
    IF calls = <<>> THEN pixels
    ELSE ApplyPoints(point(pixels, Head(calls).x, Head(calls).y, Head(calls).depth,
                           Head(calls).frag),
                     Tail(calls))

(***************************************************************************)
(* Rasterizer specification: one render() call on a drawn vertex array     *)
(***************************************************************************)
\* vertex offsets from the anchor, in quarter pixels: 0, 0.25 and whole pixels
OffVals == {0, 1} \cup {4 * k : k \in 1..MaxOff}

\* where the triangles are placed (quarter pixels): inside the viewport,
\* across its left and top edges, wholly left of and above it, right of the
\* viewport but inside the culling limit (690), beyond the culling limit (810),
\* below the culling limit but inside the viewport (610), below the viewport
\* (810), and across the right edge (678)
Anchors ==
    { <<400, 400>>, <<-6, 400>>, <<400, -6>>, <<-60, 400>>, <<400, -60>>,
      <<2760, 400>>, <<3240, 400>>, <<400, 2440>>, <<400, 3240>>, <<2712, 400>> }

Vertex(anchor, dx, dy) == [x |-> anchor[1] + dx, y |-> anchor[2] + dy, z |-> 1]

\* three vertices inside the viewport that vertex arrays of any length are
\* made of
VertexPool ==
    {Vertex(<<400, 400>>, 0, 0), Vertex(<<400, 400>>, 8, 0), Vertex(<<400, 400>>, 0, 8)}

\* one triangle at every anchor, and every array of 0..MaxVerts pool vertices
VertexArrays ==
    { <<Vertex(an, d1[1], d1[2]), Vertex(an, d2[1], d2[2]), Vertex(an, d3[1], d3[2])>> :
        an \in Anchors, d1 \in {0, 1} \X {0, 1}, d2 \in OffVals \X OffVals,
        d3 \in OffVals \X OffVals }
    \cup UNION { [1..n -> VertexPool] : n \in 0..MaxVerts }

InitRaster ==
    /\ vertex_array \in VertexArrays
    /\ vertex_reads = <<>>
    /\ tri_results = <<>>
    /\ fragments = <<>>
    /\ point_calls = <<>>
    /\ fb_pixels = <<>>
    /\ rpc = "ready"
    /\ PostIdle
    /\ FrameIdle

Render ==
    /\ rpc = "ready"
    /\ LET tris == Triangles(vertex_array)
           results == [t \in 1..Len(tris) |-> triangle(tris[t][1], tris[t][2], tris[t][3])]
           frags == Flatten([t \in 1..Len(tris) |-> results[t].fragments])
           calls == PointCalls(frags, width, height)
       IN  /\ vertex_reads' = VertexReads(Len(vertex_array))
           /\ tri_results' = results
           /\ fragments' = frags
           /\ point_calls' = calls
           /\ fb_pixels' = ApplyPoints(fb_pixels, calls)
    /\ rpc' = "rendered"
    /\ UNCHANGED <<vertex_array, postVars, frameVars>>

NextRaster == Render

SpecRaster == InitRaster /\ [][NextRaster]_vars

(***************************************************************************)
(* Post-process specification: a framebuffer is drawn, blurred, blended    *)
(***************************************************************************)
\* packed colours the colour buffer is filled with: the background set in
\* main (0x000000), the orbit colour (0x444444), 0xFFF0C8, 0x1020FC, and
\* 0x01FAE6FF, which has a bit above the three channels set
BaseColors == {0, 4473924, 16773320, 1057020, 16777216 + 16443135}

\* emission strengths of the filled emissive buffer
Emissions == {0, 1, 7, 100, 255}

ConstantBuffer(w, h, c) == [idx \in 0..(w * h - 1) |-> c]

\* one emissive pixel in an otherwise dark buffer
SpotBuffer(w, h, c) == [idx \in 0..(w * h - 1) |-> IF idx = (w * h) \div 2 THEN c ELSE 0]

InitPost ==
    /\ width \in {MaxWidth - 2, MaxWidth}
    /\ height \in {2, MaxHeight}
    /\ \E c \in Emissions :
          emissive_buffer \in {ConstantBuffer(width, height, c), SpotBuffer(width, height, c)}
    /\ emissive_in = emissive_buffer
    /\ \E base \in BaseColors : buffer = ConstantBuffer(width, height, base)
    /\ buffer_in = buffer
    /\ kernel_size \in 0..MaxKernel
    /\ sigma \in Sigmas
    /\ ppc = "ready"
    /\ RasterIdle
    /\ FrameIdle

GaussianBlur ==
    /\ ppc = "ready"
    /\ emissive_buffer' = gaussian_blur(emissive_buffer, width, height, kernel_size, sigma)
    /\ ppc' = "blurred"
    /\ UNCHANGED <<width, height, buffer, emissive_in, buffer_in, kernel_size, sigma, rasterVars, frameVars>>

ApplyBloom ==
    /\ ppc = "blurred"
    /\ buffer' = apply_bloom(buffer, emissive_buffer)
    /\ ppc' = "bloomed"
    /\ UNCHANGED <<width, height, emissive_buffer, emissive_in, buffer_in, kernel_size, sigma, rasterVars, frameVars>>

NextPost == GaussianBlur \/ ApplyBloom

SpecPost == InitPost /\ [][NextPost]_vars

(***************************************************************************)
(* Uniforms, noise presets, SolarSystem                                    *)
(***************************************************************************)
Noise(seed, noise_type, fractal_type, octaves, lacunarity, gain, frequency) ==
    [seed |-> seed, noise_type |-> noise_type, fractal_type |-> fractal_type,
     octaves |-> octaves, lacunarity |-> lacunarity, gain |-> gain,
     frequency |-> frequency]

\* lacunarity, gain and frequency are written as strings of their literals
create_earth_noise == Noise(1337, "OpenSimplex2S", "Ridged", 5, "3.0", "0.5", "0.5")
create_mars_noise == Noise(1234, "Perlin", "Ridged", 4, "2.0", "0.5", "1.5")
create_moon_noise == Noise(4321, "OpenSimplex2", "PingPong", 2, "2.0", "0.5", "3.0")
create_mercury_noise == Noise(4321, "Perlin", "PingPong", 5, "2.0", "1.0", "5.0")
create_jupiter_noise == Noise(5678, "OpenSimplex2", "DomainWarpProgressive", 6, "2.0", "0.5", "2.0")
create_urano_noise == Noise(2021, "OpenSimplex2", "Ridged", 4, "2.0", "0.4", "0.2")
\* FastNoiseLite::new(): the library's defaults
default_noise == Noise(1337, "OpenSimplex2", "None", 3, "2.0", "0.5", "0.01")

create_noise(current_shader) ==
    CASE current_shader = 1 -> create_earth_noise
      [] current_shader = 2 -> create_mars_noise
      [] current_shader = 3 -> create_mercury_noise
      [] current_shader = 4 -> default_noise
      [] current_shader = 5 -> create_jupiter_noise
      [] current_shader = 6 -> create_urano_noise
      [] current_shader = 8 -> create_moon_noise
      [] current_shader = 9 -> default_noise
      [] OTHER -> create_earth_noise

\* shader_id of bodies[0..5] as SolarSystem::new builds them: the sun, then
\* Mercury, Earth, Mars, Jupiter, Saturn (element i + 1 is bodies[i])
BodyShaders == <<7, 3, 1, 2, 5, 4>>

\* f32 values of warp_animation and delta_time are counted in units of 2^-30:
\* 1.0 is 2^30 units
F32One == 2^30

\* the f32 nearest to the number x >= 0 of units, ties to the even significand:
\* 24 bits of significand, so a number below 2^24 units is an f32 as it is
F32Round(x) ==
    IF x < 2^24 THEN x
    ELSE LET e == CHOOSE k \in 24..30 : 2^k <= x /\ (k = 30 \/ x < 2^(k + 1))
             ulp == 2^(e - 23)
             q == x \div ulp
             r == x % ulp
         IN  IF 2 * r < ulp THEN q * ulp
             ELSE IF 2 * r > ulp THEN (q + 1) * ulp
             ELSE IF q % 2 = 0 THEN q * ulp ELSE (q + 1) * ulp

\* a + b in f32
F32Add(a, b) == F32Round(a + b)

\* delta_time of an iteration in units of 2^-30 s: 0, 2^-29 s, 1/8 s, 1/2 s
DeltaTimes == {0, 2, 2^27, 2^29}

\* warp_target = None; Some(i) is the index i
NoWarp == -1

(***************************************************************************)
(* The frame loop of main()                                                *)
(***************************************************************************)
InitFrame ==
    /\ pc = "loop"
    /\ time = 0
    /\ last_bloom_update = 0
    /\ uniforms = [model_matrix |-> [object |-> "identity", position |-> <<"identity", 0>>],
                   view_matrix |-> [eye |-> <<"identity", 0>>, center |-> <<"identity", 0>>],
                   current_shader |-> 1, noise |-> create_noise(1)]
    /\ camera = [eye |-> <<"start", 0>>, center |-> <<"origin", 0>>]
    /\ solar_system = [warp_target |-> NoWarp, warp_animation |-> 0,
                       bird_eye_view |-> FALSE, spaceship |-> <<"start", 0>>]
    /\ body_i = 0
    /\ frame_events = <<>>
    /\ PostIdle
    /\ RasterIdle

\* SolarSystem::update, the part after the bodies have moved
update(ss, cam, delta_time) ==
    LET animation == F32Add(ss.warp_animation, delta_time * 2)
        arrived == ss.warp_target # NoWarp /\ animation >= F32One
        ss1 == IF ss.warp_target = NoWarp THEN ss
               ELSE IF arrived
                    THEN [ss EXCEPT !.warp_target = NoWarp, !.warp_animation = 0]
                    ELSE [ss EXCEPT !.warp_animation = animation]
        cam1 == IF arrived
                THEN [eye |-> <<"beside", ss.warp_target>>, center |-> <<"body", ss.warp_target>>]
                ELSE cam
        cam2 == IF ss.bird_eye_view THEN [eye |-> <<"above", 0>>, center |-> <<"origin", 0>>] ELSE cam1
    IN  [solar_system |-> [ss1 EXCEPT !.spaceship = cam2.eye], camera |-> cam2]

\* warp_to_planet without the test of the index
warp_to_planetUnchecked(ss, planet_index) ==
    [ss EXCEPT !.warp_target = planet_index, !.warp_animation = 0]

warp_to_planet(ss, planet_index) ==
    IF planet_index < Len(BodyShaders)
    THEN [ss EXCEPT !.warp_target = planet_index, !.warp_animation = 0]
    ELSE ss

toggle_bird_eye_view(ss) == [ss EXCEPT !.bird_eye_view = ~ss.bird_eye_view]

\* the loop condition fails: the window was closed or Escape is down
Exit ==
    /\ pc = "loop"
    /\ pc' = "done"
    /\ UNCHANGED <<time, last_bloom_update, uniforms, camera, solar_system, body_i,
                   frame_events, postVars, rasterVars>>

Update ==
    /\ pc = "loop"
    /\ time < MaxFrames
    /\ \E delta_time \in DeltaTimes :
          LET r == update(solar_system, camera, delta_time)
          IN  /\ solar_system' = r.solar_system
              /\ camera' = r.camera
    /\ frame_events' = <<>>
    /\ pc' = "input"
    /\ UNCHANGED <<time, last_bloom_update, uniforms, body_i, postVars, rasterVars>>

\* handle_input, then the mouse movement and scroll: moved says whether a key
\* or the mouse moved the camera, warp_key is the highest of the keys 1..5 that
\* is down (the later warp_to_planet call overwrites the earlier), b_key is B
HandleInput ==
    /\ pc = "input"
    /\ \E moved \in BOOLEAN, warp_key \in {NoWarp} \cup 0..4, b_key \in BOOLEAN :
          LET ss1 == IF warp_key = NoWarp THEN solar_system
                     ELSE warp_to_planet(solar_system, warp_key)
              ss2 == IF b_key THEN toggle_bird_eye_view(ss1) ELSE ss1
          IN  /\ solar_system' = ss2
              /\ camera' = IF moved
                           THEN [eye |-> <<"moved", time>>, center |-> <<"moved", time>>]
                           ELSE camera
    /\ pc' = "throttle"
    /\ UNCHANGED <<time, last_bloom_update, uniforms, body_i, frame_events, postVars, rasterVars>>

\* the throttled bloom of the previous frame's buffers
ThrottledBloom ==
    /\ pc = "throttle"
    /\ IF uniforms.current_shader = 7 /\ time - last_bloom_update >= 5
       THEN /\ frame_events' = Append(frame_events, [op |-> "bloom", kernel_size |-> 10, sigma |-> 20])
            /\ last_bloom_update' = time
       ELSE UNCHANGED <<frame_events, last_bloom_update>>
    /\ pc' = "clear"
    /\ UNCHANGED <<time, uniforms, camera, solar_system, body_i, postVars, rasterVars>>

Clear ==
    /\ pc = "clear"
    /\ frame_events' = Append(frame_events, [op |-> "clear"])
    /\ pc' = "orbits"
    /\ UNCHANGED <<time, last_bloom_update, uniforms, camera, solar_system, body_i,
                   postVars, rasterVars>>

\* the orbit points of every body that has some, through world_to_screen
DrawOrbits ==
    /\ pc = "orbits"
    /\ frame_events' = Append(frame_events,
                              [op |-> "orbits", view_matrix |-> uniforms.view_matrix,
                               camera |-> camera])
    /\ body_i' = 0
    /\ pc' = "bodies"
    /\ UNCHANGED <<time, last_bloom_update, uniforms, camera, solar_system, postVars, rasterVars>>

RenderEvent(u, mesh) ==
    [op |-> "render", mesh |-> mesh, current_shader |-> u.current_shader, noise |-> u.noise,
     model_matrix |-> u.model_matrix, view_matrix |-> u.view_matrix, camera |-> camera]

\* one iteration of the loop over solar_system.bodies
RenderBody ==
    /\ pc = "bodies"
    /\ LET u1 == [uniforms EXCEPT !.current_shader = BodyShaders[body_i + 1],
                                  !.model_matrix = [object |-> "body", position |-> <<"body", body_i>>],
                                  !.view_matrix = camera]
           u2 == [u1 EXCEPT !.current_shader = 9, !.model_matrix = [object |-> "ring", position |-> <<"body", body_i>>]]
       IN  IF body_i = 5
           THEN /\ uniforms' = u2
                /\ frame_events' = frame_events \o
                                     <<RenderEvent(u1, "sphere"), RenderEvent(u2, "ring")>>
           ELSE /\ uniforms' = u1
                /\ frame_events' = Append(frame_events, RenderEvent(u1, "sphere"))
    /\ IF body_i + 1 < Len(BodyShaders)
       THEN body_i' = body_i + 1 /\ pc' = "bodies"
       ELSE body_i' = body_i /\ pc' = "spaceship"
    /\ UNCHANGED <<time, last_bloom_update, camera, solar_system, postVars, rasterVars>>

RenderSpaceship ==
    /\ pc = "spaceship"
    /\ LET u == [uniforms EXCEPT !.current_shader = 8,
                                 !.model_matrix = [object |-> "spaceship",
                                                   position |-> solar_system.spaceship]]
       IN  /\ uniforms' = u
           /\ frame_events' = Append(frame_events, RenderEvent(u, "spaceship"))
    /\ pc' = "post"
    /\ UNCHANGED <<time, last_bloom_update, camera, solar_system, body_i, postVars, rasterVars>>

\* the post-process for the sun
PostProcess ==
    /\ pc = "post"
    /\ frame_events' =
          IF uniforms.current_shader = 7
          THEN Append(frame_events, [op |-> "bloom", kernel_size |-> 20, sigma |-> 25])
          ELSE frame_events
    /\ pc' = "present"
    /\ UNCHANGED <<time, last_bloom_update, uniforms, camera, solar_system, body_i,
                   postVars, rasterVars>>

\* window.update_with_buffer, then time += 1
Present ==
    /\ pc = "present"
    /\ frame_events' = Append(frame_events, [op |-> "present"])
    /\ time' = time + 1
    /\ pc' = "loop"
    /\ UNCHANGED <<last_bloom_update, uniforms, camera, solar_system, body_i, postVars, rasterVars>>

NextFrame ==
    \/ Exit
    \/ Update
    \/ HandleInput
    \/ ThrottledBloom
    \/ Clear
    \/ DrawOrbits
    \/ RenderBody
    \/ RenderSpaceship
    \/ PostProcess
    \/ Present

SpecFrame == InitFrame /\ [][NextFrame]_vars

(***************************************************************************)
(* The methods of SolarSystem, called in any order                         *)
(*                                                                         *)
(* frame_events holds the last call and the state it was made in, time is  *)
(* the number of update calls so far modulo 2.                             *)
(***************************************************************************)
\* SolarSystem::new, and the camera main() builds
InitSolar ==
    /\ pc = "calls"
    /\ time = 0
    /\ last_bloom_update = 0
    /\ uniforms = <<>>
    /\ camera = [eye |-> <<"start", 0>>, center |-> <<"origin", 0>>]
    /\ solar_system = [warp_target |-> NoWarp, warp_animation |-> 0,
                       bird_eye_view |-> FALSE, spaceship |-> <<"start", 0>>]
    /\ body_i = 0
    /\ frame_events = <<>>
    /\ PostIdle
    /\ RasterIdle

\* solar_system.update(delta_time, &mut camera); of the steps of 2^-29 s that
\* add up exactly from zero, the first MaxSmallSteps are taken
UpdateWith(delta_time) ==
    /\ pc = "calls"
    /\ \/ delta_time # 2
       \/ solar_system.warp_target = NoWarp
       \/ solar_system.warp_animation < 4 * MaxSmallSteps
       \/ solar_system.warp_animation >= 2^24
    /\ LET r == update(solar_system, camera, delta_time)
       IN  /\ solar_system' = r.solar_system
           /\ camera' = r.camera
    /\ frame_events' = <<[op |-> "update", delta_time |-> delta_time,
                          solar_system |-> solar_system]>>
    /\ time' = 1 - time
    /\ UNCHANGED <<pc, last_bloom_update, uniforms, body_i, postVars, rasterVars>>

UpdateCall == \E delta_time \in DeltaTimes : UpdateWith(delta_time)

\* an update with a delta_time of at least 2^-29 s
UpdatePositive == \E delta_time \in DeltaTimes \ {0} : UpdateWith(delta_time)

WarpCall ==
    /\ pc = "calls"
    /\ \E planet_index \in 0..MaxPlanetIndex :
          /\ solar_system' = warp_to_planet(solar_system, planet_index)
          /\ frame_events' = <<[op |-> "warp_to_planet", planet_index |-> planet_index,
                                solar_system |-> solar_system]>>
    /\ UNCHANGED <<pc, time, last_bloom_update, uniforms, camera, body_i, postVars, rasterVars>>

ToggleCall ==
    /\ pc = "calls"
    /\ solar_system' = toggle_bird_eye_view(solar_system)
    /\ frame_events' = <<[op |-> "toggle_bird_eye_view",
                          solar_system |-> solar_system]>>
    /\ UNCHANGED <<pc, time, last_bloom_update, uniforms, camera, body_i, postVars, rasterVars>>

\* the keys and the mouse move the camera between two calls
MoveCamera ==
    /\ pc = "calls"
    /\ camera' = [eye |-> <<"moved", 0>>, center |-> <<"moved", 0>>]
    /\ frame_events' = <<[op |-> "move_camera", solar_system |-> solar_system]>>
    /\ UNCHANGED <<pc, time, last_bloom_update, uniforms, solar_system, body_i,
                   postVars, rasterVars>>

NextSolar ==
    \/ UpdateCall
    \/ WarpCall
    \/ ToggleCall
    \/ MoveCamera

\* update keeps being called with a delta_time of at least 2^-29 s
SpecSolar == InitSolar /\ [][NextSolar]_vars /\ WF_vars(UpdatePositive)

(***************************************************************************)
(* Claims about the frame loop                                             *)
(***************************************************************************)
IsRender(ev) == ev.op = "render"

\* the full-resolution bloom: gaussian_blur with kernel 20 and sigma 2.5,
\* followed by apply_bloom
IsFullBloom(ev) == ev.op = "bloom" /\ ev.kernel_size = 20 /\ ev.sigma = 25

\* C3: in every iteration that draws a body with shader_id 7, the
\* full-resolution bloom runs after every object of the frame has been
\* rendered and before the frame is presented.
C3_FullBloomEveryFrame ==
    (pc = "loop" /\ \E k \in DOMAIN frame_events :
                        IsRender(frame_events[k]) /\ frame_events[k].current_shader = 7)
    => \E b \in DOMAIN frame_events :
          /\ IsFullBloom(frame_events[b])
          /\ \A k \in DOMAIN frame_events :
                /\ IsRender(frame_events[k]) => k < b
                /\ frame_events[k].op = "present" => b < k

\* C5: at every render() call of the frame loop, uniforms.noise is the preset
\* of the active shader selector, create_noise(uniforms.current_shader).
C5_NoiseMatchesShader ==
    \A k \in DOMAIN frame_events :
        IsRender(frame_events[k]) =>
            frame_events[k].noise = create_noise(frame_events[k].current_shader)

\* C12: every draw of a frame (the orbit points through world_to_screen, each
\* body, the ring, the spaceship) uses a view matrix that was built from the
\* camera of that frame, so the orbit points are projected with the same view
\* matrix as the bodies of the frame.
C12_ViewMatrixOfCurrentFrame ==
    \A k \in DOMAIN frame_events :
        frame_events[k].op \in {"orbits", "render"} =>
            frame_events[k].view_matrix = frame_events[k].camera

(***************************************************************************)
(* Claims about the warp of SolarSystem                                    *)
(***************************************************************************)
LastCall == frame_events[1]

AfterCall(op) == frame_events # <<>> /\ LastCall.op = op

\* C13: after any sequence of new, update, warp_to_planet and
\* toggle_bird_eye_view calls, warp_target is None or an index below
\* bodies.len(), warp_animation is 0 whenever warp_target is None and is in
\* [0, 1) after every update; warp_to_planet with an index >= bodies.len()
\* leaves warp_target and warp_animation as they were.
C13_WarpStateInvariant ==
    /\ solar_system.warp_target \in {NoWarp} \cup 0..(Len(BodyShaders) - 1)
    /\ solar_system.warp_target = NoWarp => solar_system.warp_animation = 0
    /\ AfterCall("update") =>
          0 <= solar_system.warp_animation /\ solar_system.warp_animation < F32One
    /\ (AfterCall("warp_to_planet") /\ LastCall.planet_index >= Len(BodyShaders)) =>
          /\ solar_system.warp_target = LastCall.solar_system.warp_target
          /\ solar_system.warp_animation = LastCall.solar_system.warp_animation

\* warp_to_planet was called with an index >= bodies.len() while a warp was
\* half way
C13_Witness ==
    /\ AfterCall("warp_to_planet")
    /\ LastCall.planet_index >= Len(BodyShaders)
    /\ solar_system.warp_target \in 0..(Len(BodyShaders) - 1)
    /\ solar_system.warp_animation > 0

\* C14: after warp_to_planet(i) with i < bodies.len(), if update keeps being
\* called with a positive delta_time bounded away from zero and
\* warp_to_planet is not called again, some later update sets warp_target to
\* None: a pending warp leads to its completion, unless warp_to_planet is
\* called again or an update is made with delta_time = 0.
C14_WarpCompletes ==
    \A i \in 0..(Len(BodyShaders) - 1) :
        (solar_system.warp_target = i)
            ~> \/ solar_system.warp_target = NoWarp
               \/ AfterCall("warp_to_planet")
               \/ AfterCall("update") /\ LastCall.delta_time = 0

(***************************************************************************)
(* Claims about the rasterizer                                             *)
(***************************************************************************)
\* signed area of (p, q, r), written out independently of edge_function
Cross(p, q, r) == (r.x - p.x) * (q.y - p.y) - (r.y - p.y) * (q.x - p.x)

TriangleOf(t) == Triangles(vertex_array)[t]

AreaOf(t) == Cross(TriangleOf(t)[1], TriangleOf(t)[2], TriangleOf(t)[3])

\* the sample centre of pixel (x, y) is inside or on the edge of triangle t:
\* the three edge functions divided by the area are all >= 0
CentreInside(t, x, y) ==
    LET tri == TriangleOf(t)
        pt == [x |-> 4 * x + 2, y |-> 4 * y + 2]
    IN  /\ AreaOf(t) # 0
        /\ Cross(tri[2], tri[3], pt) * AreaOf(t) >= 0
        /\ Cross(tri[3], tri[1], pt) * AreaOf(t) >= 0
        /\ Cross(tri[1], tri[2], pt) * AreaOf(t) >= 0

\* |area| >= 0.1
NotDegenerate(t) == 10 * Abs(AreaOf(t)) >= 16

FragmentsAt(t, x, y) ==
    Cardinality({i \in DOMAIN tri_results[t].fragments :
                    tri_results[t].fragments[i].x = x /\ tri_results[t].fragments[i].y = y})

\* C1: triangle() returns exactly one fragment at each pixel of the 680x800
\* framebuffer whose sample centre is inside or on the edge of a
\* non-degenerate triangle, and none at any other pixel.  (A centre inside the
\* triangle lies in its bounding box, so the pixels around the box suffice.)
C1_ExactCoverage ==
    rpc = "rendered" =>
        \A t \in DOMAIN tri_results :
            LET box == calculate_bounding_box(TriangleOf(t)[1], TriangleOf(t)[2], TriangleOf(t)[3])
            IN  /\ \A x \in (box.min_x - 1)..(box.max_x + 1), y \in (box.min_y - 1)..(box.max_y + 1) :
                      (x \in 0..(FramebufferWidth - 1) /\ y \in 0..(FramebufferHeight - 1)) =>
                          FragmentsAt(t, x, y) =
                              IF CentreInside(t, x, y) /\ NotDegenerate(t) THEN 1 ELSE 0
                /\ \A i \in DOMAIN tri_results[t].fragments :
                      LET f == tri_results[t].fragments[i]
                      IN  (f.x \in 0..(FramebufferWidth - 1) /\ f.y \in 0..(FramebufferHeight - 1))
                              => CentreInside(t, f.x, f.y) /\ NotDegenerate(t)

\* all three vertices outside the 680x800 viewport on the same side of one axis
OutsideViewportOnOneAxis(t) ==
    LET tri == TriangleOf(t)
    IN  \/ \A k \in 1..3 : tri[k].x < 0
        \/ \A k \in 1..3 : tri[k].x > 4 * FramebufferWidth
        \/ \A k \in 1..3 : tri[k].y < 0
        \/ \A k \in 1..3 : tri[k].y > 4 * FramebufferHeight

\* C2: a triangle whose vertices all lie outside the 680x800 viewport on the
\* same side of one axis yields zero fragments.
C2_OutsideViewportNoFragments ==
    rpc = "rendered" =>
        \A t \in DOMAIN tri_results :
            OutsideViewportOnOneAxis(t) => tri_results[t].fragments = <<>>

OutOfBounds(f) == f.x < 0 \/ f.y < 0 \/ f.x >= width \/ f.y >= height

\* C4: a fragment whose coordinate is out of bounds causes no call of
\* framebuffer.point and is stored at no pixel of the framebuffer.
C4_OutOfBoundsDropped ==
    rpc = "rendered" =>
        \A i \in DOMAIN fragments :
            OutOfBounds(fragments[i]) =>
                /\ \A k \in DOMAIN point_calls : point_calls[k].frag # i
                /\ \A px \in DOMAIN fb_pixels : fb_pixels[px].frag # i

\* C9: the barycentric weights w1, w2, w3 = w[k] / area of every emitted
\* fragment are each in [0, 1] and sum to 1, for either winding order.
C9_BarycentricWeights ==
    rpc = "rendered" =>
        \A i \in DOMAIN fragments :
            LET f == fragments[i]
            IN  /\ f.area # 0
                /\ f.w[1] + f.w[2] + f.w[3] = f.area
                /\ \A k \in 1..3 : f.w[k] * f.area >= 0 /\ Abs(f.w[k]) <= Abs(f.area)

\* fragments of a triangle of negative signed area, one strictly inside it
\* and one on an edge
C9_Witness ==
    /\ rpc = "rendered"
    /\ Len(fragments) >= 3
    /\ fragments[1].area < 0
    /\ \E i \in DOMAIN fragments : \A k \in 1..3 : fragments[i].w[k] # 0
    /\ \E i \in DOMAIN fragments : \E k \in 1..3 : fragments[i].w[k] = 0

\* C11: render() consumes a vertex array of length n as exactly floor(n / 3)
\* triangles, the t-th (counting from 0) made of the vertices 3t, 3t + 1,
\* 3t + 2 in this order; the trailing n mod 3 vertices are left out and no
\* index >= n is read.
C11_TrianglesInGroupsOfThree ==
    rpc = "rendered" =>
        LET n == Len(vertex_array)
        IN  /\ Len(vertex_reads) = n \div 3
            /\ Len(tri_results) = n \div 3
            /\ \A t \in DOMAIN vertex_reads :
                  /\ vertex_reads[t] = <<3 * (t - 1), 3 * (t - 1) + 1, 3 * (t - 1) + 2>>
                  /\ \A k \in 1..3 : vertex_reads[t][k] \in 0..(n - 1)
                  /\ tri_results[t] = triangle(vertex_array[3 * t - 2], vertex_array[3 * t - 1],
                                               vertex_array[3 * t])
            /\ \A i \in 0..(n - 1) :
                  i >= 3 * (n \div 3) => \A t \in DOMAIN vertex_reads, k \in 1..3 :
                                            vertex_reads[t][k] # i

\* an array of two triangles and a trailing vertex, the triangles rasterized
\* to different fragments
C11_Witness ==
    /\ rpc = "rendered"
    /\ Len(vertex_array) % 3 = 1
    /\ Len(tri_results) = 2
    /\ tri_results[1].fragments # <<>>
    /\ tri_results[1] # tri_results[2]

\* C10: a triangle whose signed area is below 0.1 in absolute value (collinear
\* and coincident vertices included) yields zero fragments, and no division
\* by the area is performed for it.
C10_DegenerateNoFragments ==
    rpc = "rendered" =>
        \A t \in DOMAIN tri_results :
            10 * Abs(AreaOf(t)) < 16 =>
                tri_results[t].fragments = <<>> /\ tri_results[t].divisions = 0

\* a sliver of area 1/16 inside the viewport that the frustum test lets through
C10_Witness ==
    /\ rpc = "rendered"
    /\ \E t \in DOMAIN tri_results :
          /\ Abs(AreaOf(t)) = 1
          /\ ~FrustumCulled(TriangleOf(t)[1], TriangleOf(t)[2], TriangleOf(t)[3])
          /\ ~OutsideViewportOnOneAxis(t)
          /\ tri_results[t].fragments = <<>>


(***************************************************************************)
(* Claims about the post-process                                           *)
(***************************************************************************)
Pixels == 0..(width * height - 1)

IsConstant(buf) == \A i \in Pixels, j \in Pixels : buf[i] = buf[j]

\* the full horizontal and vertical kernel windows of pixel idx lie inside
InteriorPixel(idx) ==
    \A k \in 0..(kernel_size - 1) :
        /\ (idx % width) + SampleOffset(k, kernel_size) \in 0..(width - 1)
        /\ (idx \div width) + SampleOffset(k, kernel_size) \in 0..(height - 1)

\* C6: gaussian_blur of a buffer filled with a constant c, for any kernel size
\* and sigma, leaves c at every interior pixel and a value in 0..c at every
\* boundary pixel.
C6_ConstantPreserved ==
    (ppc # "ready" /\ IsConstant(emissive_in)) =>
        \A idx \in Pixels :
            /\ emissive_buffer[idx] \in 0..emissive_in[idx]
            /\ InteriorPixel(idx) => emissive_buffer[idx] = emissive_in[idx]

\* C7: the kernel is symmetric about the mean, and its weights never increase
\* with the distance from the mean (so the largest weight is nearest the mean).
C7_KernelIsGaussian ==
    LET kernel == create_gaussian_kernel(kernel_size, sigma)
        twoD(i) == Abs(2 * (i - 1) - (kernel_size - 1))
    IN  \A i \in 1..kernel_size, j \in 1..kernel_size :
            /\ twoD(i) = twoD(j) => kernel[i] = kernel[j]
            /\ twoD(i) < twoD(j) => kernel[i] >= kernel[j]

Channels(color) == <<ChannelR(color), ChannelG(color), ChannelB(color)>>

\* C8: blend_bloom is monotonic in the bloom intensity, never lowers a channel
\* of the base colour, never exceeds 255, and each channel is
\* floor(min(channel + 0.8 e, 255)), for every colour apply_bloom is about to
\* blend; apply_bloom blends exactly the pixels whose bloom is positive.
C8_BlendMonotonicCapped ==
    /\ ppc = "blurred" =>
       \A color \in {buffer[i] : i \in Pixels} :
       \A e1 \in 0..MaxBloom : \A e2 \in e1..MaxBloom : \A ch \in 1..3 :
          LET base == Channels(color)[ch]
              lo == Channels(blend_bloom(color, e1))[ch]
              hi == Channels(blend_bloom(color, e2))[ch]
          IN  /\ lo <= hi
              /\ base <= lo
              /\ hi <= 255
              /\ 5 * lo <= 5 * base + 4 * e1
              /\ lo = 255 \/ 5 * lo + 5 > 5 * base + 4 * e1
    /\ ppc = "bloomed" =>
          \A i \in Pixels : \A ch \in 1..3 :
              /\ Channels(buffer[i])[ch] >= Channels(buffer_in[i])[ch]
              /\ Channels(buffer[i])[ch] <= 255
              /\ emissive_buffer[i] > 0 => buffer[i] = blend_bloom(buffer_in[i], emissive_buffer[i])

\* a bloomed pixel whose blue channel was raised to the cap and whose red
\* channel was raised below it
C8_Witness ==
    /\ ppc = "bloomed"
    /\ \E i \in Pixels :
          /\ emissive_buffer[i] > 0
          /\ ChannelB(buffer_in[i]) < 255 /\ ChannelB(buffer[i]) = 255
          /\ ChannelR(buffer_in[i]) < ChannelR(buffer[i]) /\ ChannelR(buffer[i]) < 255

====
